---- MODULE Spec2Model ----
(***************************************************************************)
(* The outgoing message queue of session-desktop                           *)
(* (ts/session/sending/MessageQueue.ts) as a state machine.                *)
(*                                                                         *)
(* JavaScript runs one flow at a time; a flow gives up control only at an  *)
(* `await`.  Every action below is the code between two suspension points. *)
(* A call that is not awaited (`void f()`) starts a flow of its own whose  *)
(* effect takes place in a later step.                                     *)
(***************************************************************************)
EXTENDS Integers, Sequences, FiniteSets, TLC

\* ------------------------------------------------------------------ bounds
MaxMsgs == 2        \* messages handed to the queue over a whole run
MaxRestarts == 1    \* process restarts
MaxCalls == 1       \* processPending / processAllPending calls by the application
MaxOgCalls == 2     \* sendToOpenGroupV2 / sendToOpenGroupV2BlindedRequest calls
MaxEdits == 2       \* local changes made to the user config wrappers
MaxMarking == 1     \* markAsPushed calls suspended at the same time

\* --------------------------------------------------------------- constants
Us == "us"                       \* UserUtils.getOurPubKeyFromCache()
Dests == {Us, "A"}               \* destination identities (PubKey.key)
None == "none"
Ids == 1..MaxMsgs                \* message identifiers
Timestamps == {1000, 1001}       \* effectiveTimestamp values the transport returns
OgIds == 1..MaxOgCalls           \* open-group calls

\* The messages a caller can pass in: the class of the message, whether it
\* carries a syncTarget, its embedded groupId and (group v2) its destination.
ContentMessages ==
    { [kind |-> "visible",     syncTarget |-> FALSE, groupId |-> None, destination |-> None],
      [kind |-> "visible",     syncTarget |-> TRUE,  groupId |-> None, destination |-> None],
      [kind |-> "unsend",      syncTarget |-> FALSE, groupId |-> None, destination |-> None],
      [kind |-> "closedGroup", syncTarget |-> FALSE, groupId |-> "A",  destination |-> None],
      [kind |-> "expirationTimer", syncTarget |-> FALSE, groupId |-> None, destination |-> None],
      [kind |-> "groupV2",     syncTarget |-> FALSE, groupId |-> None, destination |-> "A"],
      [kind |-> "groupV2",     syncTarget |-> TRUE,  groupId |-> None, destination |-> "A"] }

VARIABLES
    msg,         \* what became of the call that carried each identifier
    cache,       \* PendingMessageCache: persisted raw messages, in insertion order
    callbacks,   \* PendingMessageCache.callbacks: identifiers with a sentCb
    jobQueues,   \* MessageQueue.jobQueues: per destination, the queued jobs
    phase,       \* per destination, where the head job of the queue stands
    inflight,    \* transport sends handed over and not yet settled
    drains,      \* processPending calls suspended at `await getForDevice`
    paps,        \* number of processAllPending calls suspended at `await getDevices`
    removing,    \* identifiers with a pendingMessageCache.remove in flight
    nd,          \* sendToPubKeyNonDurably calls in progress
    restarts,    \* restarts so far
    calls,       \* processPending / processAllPending calls of the application so far
    ev,          \* history: the MessageSentHandler calls made by the last step
    delivered,   \* history: identifiers whose transport send was resolved
    failed,      \* history: identifiers whose transport send was rejected
    bootSet      \* history: identifiers cached at the last restart

\* The open-group sends, which go past the cache and the job queues.
VARIABLES
    og,          \* sendToOpenGroupV2 / BlindedRequest calls in progress
    ogLog        \* history: per call, the endpoints and handlers it invoked

\* LibSessionUtil: the config wrappers and their dumps.
VARIABLES
    keyPresent,  \* whether UserUtils.getUserED25519KeyPairBytes() finds a private key
    dumpTable,   \* ConfigDumpData: the persisted dumps, in row order
    wrappers,    \* per variant, the state of its wrapper in the libsession worker
    initRun,     \* initializeLibSessionUtilWrappers: where the call stands
    marking,     \* markAsPushed calls suspended at `await confirmPushed`
    lsuLog       \* history: what the last LibSessionUtil call did and returned

mqVars == << msg, cache, callbacks, jobQueues, phase, inflight, drains, paps,
             removing, nd, restarts, calls, ev, delivered, failed, bootSet >>

ogVars == << og, ogLog >>

lsuVars == << keyPresent, dumpTable, wrappers, initRun, marking, lsuLog >>

vars == << mqVars, ogVars, lsuVars >>

\* ------------------------------------------------------------------ helpers
Range(s) == { s[i] : i \in 1..Len(s) }

CachedIds(c) == { e.id : e \in Range(c) }

HasId == \E i \in Ids : msg[i] = "unused"

NextId == CHOOSE i \in Ids : msg[i] = "unused" /\ \A j \in 1..(i - 1) : msg[j] # "unused"

\* The outcome of the call that carried identifier id.
Mark(id, st) == msg' = [msg EXCEPT ![id] = st]

\* The calls to MessageSentHandler of one step: handleMessageSentSuccess (for
\* which message, and whether with the timestamp the transport returned) and
\* handleMessageSentFailure (for which message).  0 stands for no call.
NoEv == [success |-> 0, tsOk |-> TRUE, failure |-> 0]
SuccessEv(id, tsOk) == [success |-> id, tsOk |-> tsOk, failure |-> 0]
FailureEv(id) == [success |-> 0, tsOk |-> TRUE, failure |-> id]

\* --------------------------------------------------- PendingMessageCache
\* getForDevice: the pending sequence of one destination, in insertion order.
RECURSIVE getForDevice(_, _)
getForDevice(c, device) ==
    IF c = << >> THEN << >>
    ELSE IF Head(c).device = device
         THEN << Head(c) >> \o getForDevice(Tail(c), device)
         ELSE getForDevice(Tail(c), device)

\* getDevices: the destinations with at least one pending message.
getDevices(c) == { e.device : e \in Range(c) }

\* add: append the raw message (the callback is registered in `callbacks`).
cacheAdd(c, device, id, isGroup) ==
    Append(c, [id |-> id, device |-> device, isGroup |-> isGroup])

\* remove: by identifier, a no-op when the identifier is absent.
RECURSIVE cacheRemove(_, _)
cacheRemove(c, id) ==
    IF c = << >> THEN << >>
    ELSE IF Head(c).id = id THEN cacheRemove(Tail(c), id)
         ELSE << Head(c) >> \o cacheRemove(Tail(c), id)

InCache(id) == id \in CachedIds(cache)

\* ------------------------------------------------------------- JobQueue
\* has(id)
has(q, id) == \E i \in 1..Len(q) : q[i].id = id

\* addWithId(id, job): enqueue unless the identifier is already queued.
addWithId(q, id, job) == IF has(q, id) THEN q ELSE Append(q, job)

\* The queue runs its jobs one at a time, in enqueue order: the head job may
\* start when no job of this queue is running.
CanRun(d) == phase[d] = "idle" /\ jobQueues[d] # << >>

\* ---------------------------------------------------------- MessageSender
\* isSyncMessage: the self-target types (a ClosedGroupNewMessage, an
\* UnsendMessage, or a message with a syncTarget set).
isSyncMessage(m) == m.syncTarget \/ m.kind \in {"unsend", "groupNew"}

\* ------------------------------------------------------------ MessageQueue
\* Mutants of the loop: the messages taken last to first; a job added without
\* looking at the identifiers the queue holds.
RECURSIVE EnqueueJobs_Reversed(_, _, _)
EnqueueJobs_Reversed(q, messages, isSync) ==
    IF messages = << >> THEN q
    ELSE LET messageId == messages[Len(messages)].id
             q2 == IF ~has(q, messageId)
                   THEN addWithId(q, messageId, [id |-> messageId, sync |-> isSync])
                   ELSE q
         IN  EnqueueJobs_Reversed(q2, SubSeq(messages, 1, Len(messages) - 1), isSync)

RECURSIVE EnqueueJobs_NoHas(_, _, _)
EnqueueJobs_NoHas(q, messages, isSync) ==
    IF messages = << >> THEN q
    ELSE EnqueueJobs_NoHas(Append(q, [id |-> Head(messages).id, sync |-> isSync]),
                           Tail(messages), isSync)

\* The messages.forEach loop of processPending: a job for every message whose
\* identifier the queue does not hold, in the order of the messages read.
RECURSIVE EnqueueJobs(_, _, _)
EnqueueJobs(q, messages, isSync) ==
    IF messages = << >> THEN q
    ELSE LET messageId == Head(messages).id
             q2 == IF ~has(q, messageId)
                   THEN addWithId(q, messageId, [id |-> messageId, sync |-> isSync])
                   ELSE q
         IN  EnqueueJobs(q2, Tail(messages), isSync)

\* processPending(device, isSyncMessage): the call is suspended at
\* `await getForDevice(device)`; when it resumes it holds the messages cached
\* for the device and runs the loop on the device's job queue.
processPendingCall(device, isSync) == [dest |-> device, sync |-> isSync]

\* Mutant: one job queue for all the devices.
processPending_OneQueue(queues, c, device, isSync) ==
    [queues EXCEPT !["A"] = EnqueueJobs(@, getForDevice(c, device), isSync)]

processPending(queues, c, device, isSync) ==
    [queues EXCEPT ![device] = EnqueueJobs(@, getForDevice(c, device), isSync)]

\* What a call leaves alone when it returns or throws before any I/O.
NothingDone ==
    /\ ev' = NoEv
    /\ UNCHANGED << cache, callbacks, jobQueues, phase, inflight, drains, paps,
                    removing, nd, delivered, failed, bootSet >>

\* Mutant of process: every message for our own key is dropped.
process_DropSelf(destinationPk, m, id, sentCb, isGroup, addOk) ==
    IF destinationPk = Us
    THEN Mark(id, "dropped") /\ NothingDone
    ELSE IF ~addOk
    THEN Mark(id, "addFailed") /\ NothingDone
    ELSE /\ Mark(id, "admitted")
         /\ cache' = cacheAdd(cache, destinationPk, id, isGroup)
         /\ callbacks' = IF sentCb THEN callbacks \cup {id} ELSE callbacks
         /\ drains' = drains \cup { processPendingCall(destinationPk, FALSE) }
         /\ ev' = NoEv
         /\ UNCHANGED << jobQueues, phase, inflight, paps, removing, nd,
                         delivered, failed, bootSet >>

\* Mutant of process: processPending is not started after the add.
process_NoProcessPending(destinationPk, m, id, sentCb, isGroup, addOk) ==
    IF destinationPk = Us /\ ~isSyncMessage(m)
    THEN Mark(id, "dropped") /\ NothingDone
    ELSE IF ~addOk
    THEN Mark(id, "addFailed") /\ NothingDone
    ELSE /\ Mark(id, "admitted")
         /\ cache' = cacheAdd(cache, destinationPk, id, isGroup)
         /\ callbacks' = IF sentCb THEN callbacks \cup {id} ELSE callbacks
         /\ ev' = NoEv
         /\ UNCHANGED << jobQueues, phase, inflight, drains, paps, removing, nd,
                         delivered, failed, bootSet >>

\* Mutant of process: the add is not awaited, so that its rejection is not
\* thrown to the caller and processPending is started all the same.
process_NoAwaitAdd(destinationPk, m, id, sentCb, isGroup, addOk) ==
    IF destinationPk = Us /\ ~isSyncMessage(m)
    THEN Mark(id, "dropped") /\ NothingDone
    ELSE /\ Mark(id, "admitted")
         /\ cache' = IF addOk THEN cacheAdd(cache, destinationPk, id, isGroup) ELSE cache
         /\ callbacks' = IF addOk /\ sentCb THEN callbacks \cup {id} ELSE callbacks
         /\ drains' = drains \cup { processPendingCall(destinationPk,
                                        destinationPk = Us /\ isSyncMessage(m)) }
         /\ ev' = NoEv
         /\ UNCHANGED << jobQueues, phase, inflight, paps, removing, nd,
                         delivered, failed, bootSet >>

\* Mutant of process: no self-send check.
process_NoSelfCheck(destinationPk, m, id, sentCb, isGroup, addOk) ==
    IF ~addOk
    THEN Mark(id, "addFailed") /\ NothingDone
    ELSE /\ Mark(id, "admitted")
         /\ cache' = cacheAdd(cache, destinationPk, id, isGroup)
         /\ callbacks' = IF sentCb THEN callbacks \cup {id} ELSE callbacks
         /\ drains' = drains \cup { processPendingCall(destinationPk,
                                        destinationPk = Us /\ isSyncMessage(m)) }
         /\ ev' = NoEv
         /\ UNCHANGED << jobQueues, phase, inflight, paps, removing, nd,
                         delivered, failed, bootSet >>

\* process: the self-send check, pendingMessageCache.add, then processPending.
process(destinationPk, m, id, sentCb, isGroup, addOk) ==
    IF destinationPk = Us /\ ~isSyncMessage(m)
    THEN Mark(id, "dropped") /\ NothingDone
    ELSE IF ~addOk
    THEN Mark(id, "addFailed") /\ NothingDone
    ELSE LET isSync == destinationPk = Us /\ isSyncMessage(m)
         IN
         /\ Mark(id, "admitted")
         /\ cache' = cacheAdd(cache, destinationPk, id, isGroup)
         /\ callbacks' = IF sentCb THEN callbacks \cup {id} ELSE callbacks
         /\ drains' = drains \cup { processPendingCall(destinationPk, isSync) }
         /\ ev' = NoEv
         /\ UNCHANGED << jobQueues, phase, inflight, paps, removing, nd,
                         delivered, failed, bootSet >>

\* Mutant of sendToPubKey: no syncTarget check.
sendToPubKey_NoSyncCheck(destinationPubKey, m, id, sentCb, isGroup, addOk) ==
    process(destinationPubKey, m, id, sentCb, isGroup, addOk)

sendToPubKey(destinationPubKey, m, id, sentCb, isGroup, addOk) ==
    IF m.syncTarget
    THEN Mark(id, "syncRejected") /\ NothingDone
    ELSE process(destinationPubKey, m, id, sentCb, isGroup, addOk)

\* Mutant of sendToGroup: the groupId of the message is not looked at.
sendToGroup_ExplicitOnly(m, groupPubKey, id, sentCb, addOk) ==
    IF groupPubKey = None
    THEN Mark(id, "invalidGroup") /\ NothingDone
    ELSE sendToPubKey(groupPubKey, m, id, sentCb, TRUE, addOk)

sendToGroup(m, groupPubKey, id, sentCb, addOk) ==
    LET destinationPubKey ==
            IF m.kind \in {"expirationTimer", "closedGroup"}
            THEN (IF groupPubKey # None THEN groupPubKey ELSE m.groupId)
            ELSE groupPubKey
    IN  IF destinationPubKey = None
        THEN Mark(id, "invalidGroup") /\ NothingDone
        ELSE sendToPubKey(destinationPubKey, m, id, sentCb, TRUE, addOk)

sendToGroupV2(m, id, sentCb, addOk) ==
    IF m.destination = None
    THEN Mark(id, "invalidGroup") /\ NothingDone
    ELSE sendToPubKey(m.destination, m, id, sentCb, TRUE, addOk)

\* Mutant of sendSyncMessage: the class of the message is not looked at.
sendSyncMessage_NoTypeCheck(present, m, id, sentCb, addOk) ==
    IF ~present
    THEN Mark(id, "noop") /\ NothingDone
    ELSE process(Us, m, id, sentCb, FALSE, addOk)

sendSyncMessage(present, m, id, sentCb, addOk) ==
    IF ~present
    THEN Mark(id, "noop") /\ NothingDone
    ELSE IF m.kind # "unsend" /\ ~m.syncTarget
    THEN Mark(id, "invalidSync") /\ NothingDone
    ELSE process(Us, m, id, sentCb, FALSE, addOk)

\* The calls of the application.
SendToPubKey ==
    /\ HasId
    /\ \E d \in Dests, m \in ContentMessages, cb \in BOOLEAN, addOk \in BOOLEAN :
          sendToPubKey(d, m, NextId, cb, FALSE, addOk)
    /\ UNCHANGED << restarts, ogVars, lsuVars, calls >>

SendToGroup ==
    /\ HasId
    /\ \E m \in ContentMessages, g \in Dests \cup {None}, cb \in BOOLEAN, addOk \in BOOLEAN :
          sendToGroup(m, g, NextId, cb, addOk)
    /\ UNCHANGED << restarts, ogVars, lsuVars, calls >>

SendToGroupV2 ==
    /\ HasId
    /\ \E m \in ContentMessages, cb \in BOOLEAN, addOk \in BOOLEAN :
          sendToGroupV2(m, NextId, cb, addOk)
    /\ UNCHANGED << restarts, ogVars, lsuVars, calls >>

SendSyncMessage ==
    /\ HasId
    /\ \E present \in BOOLEAN, m \in ContentMessages, cb \in BOOLEAN, addOk \in BOOLEAN :
          sendSyncMessage(present, m, NextId, cb, addOk)
    /\ UNCHANGED << restarts, ogVars, lsuVars, calls >>

\* processPending(device) called from outside the queue.
ProcessPendingCall ==
    /\ calls < MaxCalls
    /\ calls' = calls + 1
    /\ \E d \in Dests : drains' = drains \cup { processPendingCall(d, FALSE) }
    /\ ev' = NoEv
    /\ UNCHANGED << msg, cache, callbacks, jobQueues, phase, inflight, paps,
                    removing, nd, restarts, ogVars, lsuVars, delivered, failed, bootSet >>

\* processPending resumes after `await getForDevice` and enqueues the jobs.
ProcessPendingResume ==
    \E dr \in drains :
       /\ drains' = drains \ {dr}
       /\ jobQueues' = processPending(jobQueues, cache, dr.dest, dr.sync)
       /\ ev' = NoEv
       /\ UNCHANGED << msg, cache, callbacks, phase, inflight, paps, removing, nd,
                       restarts, ogVars, lsuVars, calls, delivered, failed, bootSet >>

\* processAllPending() called from outside the queue: suspended at
\* `await getDevices()`.
ProcessAllPendingCall ==
    /\ calls < MaxCalls
    /\ calls' = calls + 1
    /\ paps' = paps + 1
    /\ ev' = NoEv
    /\ UNCHANGED << msg, cache, callbacks, jobQueues, phase, inflight, drains,
                    removing, nd, restarts, ogVars, lsuVars, delivered, failed, bootSet >>

\* processAllPending resumes: devices.map(device => processPending(device)).
processAllPending(c) == { processPendingCall(device, FALSE) : device \in getDevices(c) }

ProcessAllPendingResume ==
    /\ paps > 0
    /\ paps' = paps - 1
    /\ drains' = drains \cup processAllPending(cache)
    /\ ev' = NoEv
    /\ UNCHANGED << msg, cache, callbacks, jobQueues, phase, inflight, removing,
                    nd, restarts, ogVars, lsuVars, calls, delivered, failed, bootSet >>

\* ------------------------------------------------------- the job of a message
HeadId(d) == Head(jobQueues[d]).id

JobSend(d) == [id |-> HeadId(d), dest |-> d, via |-> "job", sync |-> Head(jobQueues[d]).sync]

\* Mutants of the start of the job: the send is not awaited, so the job goes
\* straight to its finally block; the cache removal is started before the send.
jobSend_NoAwait(d) ==
    /\ inflight' = inflight \cup { JobSend(d) }
    /\ removing' = removing \cup { HeadId(d) }
    /\ jobQueues' = [jobQueues EXCEPT ![d] = Tail(@)]
    /\ ev' = NoEv
    /\ UNCHANGED << cache, callbacks, phase, drains, paps, nd, delivered, failed, bootSet >>

jobSend_RemoveFirst(d) ==
    /\ inflight' = inflight \cup { JobSend(d) }
    /\ phase' = [phase EXCEPT ![d] = "sending"]
    /\ removing' = removing \cup { HeadId(d) }
    /\ ev' = NoEv
    /\ UNCHANGED << cache, callbacks, jobQueues, drains, paps, nd,
                    delivered, failed, bootSet >>

\* The job starts: MessageSender.send(message, undefined, undefined, isSyncMessage),
\* awaited.
jobSend(d) ==
    /\ inflight' = inflight \cup { JobSend(d) }
    /\ phase' = [phase EXCEPT ![d] = "sending"]
    /\ ev' = NoEv
    /\ UNCHANGED << cache, callbacks, jobQueues, drains, paps, removing, nd,
                    delivered, failed, bootSet >>

JobStart ==
    \E d \in Dests :
       /\ CanRun(d)
       /\ jobSend(d)
       /\ UNCHANGED << msg, restarts, ogVars, lsuVars, calls >>

\* Mutants of the end of the job: the removal only when nothing was rejected;
\* a catch block that does not call handleMessageSentFailure.
jobCatchFinally_KeepFailed(d, id, rejected) ==
    /\ ev' = IF rejected THEN FailureEv(id) ELSE NoEv
    /\ removing' = IF rejected THEN removing ELSE removing \cup {id}
    /\ jobQueues' = [jobQueues EXCEPT ![d] = Tail(@)]
    /\ phase' = [phase EXCEPT ![d] = "idle"]

jobCatchFinally_Silent(d, id, rejected) ==
    /\ ev' = NoEv
    /\ removing' = removing \cup {id}
    /\ jobQueues' = [jobQueues EXCEPT ![d] = Tail(@)]
    /\ phase' = [phase EXCEPT ![d] = "idle"]

\* The end of the job: the catch block when something in the try block was
\* rejected (`void handleMessageSentFailure`), then the finally block
\* (`void pendingMessageCache.remove(message)`); the job has settled and the
\* queue drops its identifier.
jobCatchFinally(d, id, rejected) ==
    /\ ev' = IF rejected THEN FailureEv(id) ELSE NoEv
    /\ removing' = removing \cup {id}
    /\ jobQueues' = [jobQueues EXCEPT ![d] = Tail(@)]
    /\ phase' = [phase EXCEPT ![d] = "idle"]

JobSending(d) == phase[d] = "sending" /\ JobSend(d) \in inflight

\* The transport resolves with effectiveTimestamp:
\* handleMessageSentSuccess(message, effectiveTimestamp, ..) is called and awaited.
jobSendResolved(d, effectiveTimestamp, t) ==
    /\ ev' = SuccessEv(HeadId(d), t = effectiveTimestamp)
    /\ phase' = [phase EXCEPT ![d] = "handling"]
    /\ UNCHANGED << jobQueues, removing, callbacks >>

SendResolve ==
    \E d \in Dests, t \in Timestamps :
       /\ JobSending(d)
       /\ inflight' = inflight \ { JobSend(d) }
       /\ delivered' = delivered \cup {HeadId(d)}
       /\ jobSendResolved(d, t, t)
       /\ UNCHANGED << msg, cache, drains, paps, nd, restarts, ogVars, lsuVars, calls, failed, bootSet >>

\* The transport rejects: catch, finally.
SendReject ==
    \E d \in Dests :
       /\ JobSending(d)
       /\ inflight' = inflight \ { JobSend(d) }
       /\ failed' = failed \cup {HeadId(d)}
       /\ jobCatchFinally(d, HeadId(d), TRUE)
       /\ UNCHANGED << msg, cache, callbacks, drains, paps, nd, restarts, ogVars, lsuVars, calls,
                       delivered, bootSet >>

\* handleMessageSentSuccess settles.  Resolved: the callback registered for the
\* message, if any, is called and awaited; with none, callbacks.delete and the
\* finally block.  Rejected: catch, finally.
SuccessHandlerSettle ==
    \E d \in Dests, ok \in BOOLEAN :
       /\ phase[d] = "handling"
       /\ IF ok /\ HeadId(d) \in callbacks
          THEN /\ phase' = [phase EXCEPT ![d] = "callback"]
               /\ ev' = NoEv
               /\ UNCHANGED << callbacks, jobQueues, removing >>
          ELSE /\ callbacks' = IF ok THEN callbacks \ {HeadId(d)} ELSE callbacks
               /\ jobCatchFinally(d, HeadId(d), ~ok)
       /\ UNCHANGED << msg, cache, inflight, drains, paps, nd, restarts, ogVars, lsuVars, calls,
                       delivered, failed, bootSet >>

\* The callback settles.  Resolved: callbacks.delete, finally.  Rejected:
\* catch, finally.
CallbackSettle ==
    \E d \in Dests, ok \in BOOLEAN :
       /\ phase[d] = "callback"
       /\ callbacks' = IF ok THEN callbacks \ {HeadId(d)} ELSE callbacks
       /\ jobCatchFinally(d, HeadId(d), ~ok)
       /\ UNCHANGED << msg, cache, inflight, drains, paps, nd, restarts, ogVars, lsuVars, calls,
                       delivered, failed, bootSet >>

\* A pendingMessageCache.remove started by a finally block takes effect.
RemoveComplete ==
    \E id \in removing :
       /\ removing' = removing \ {id}
       /\ cache' = cacheRemove(cache, id)
       /\ ev' = NoEv
       /\ UNCHANGED << msg, callbacks, jobQueues, phase, inflight, drains, paps,
                       nd, restarts, ogVars, lsuVars, calls, delivered, failed, bootSet >>

\* ------------------------------------------------- sendToPubKeyNonDurably
\* toRawMessage, then MessageSender.send(rawMessage): no cache, no job queue.
\* When toRawMessage is rejected rawMessage is undefined and the call returns
\* null at once.
NdSend(id, pubkey) == [id |-> id, dest |-> pubkey, via |-> "nd", sync |-> FALSE]

sendToPubKeyNonDurably(pubkey, id, rawOk) ==
    IF ~rawOk
    THEN Mark(id, "ndNull") /\ NothingDone
    ELSE /\ Mark(id, "nd")
         /\ nd' = nd \cup { [id |-> id, dest |-> pubkey, ph |-> "sending"] }
         /\ inflight' = inflight \cup { NdSend(id, pubkey) }
         /\ ev' = NoEv
         /\ UNCHANGED << cache, callbacks, jobQueues, phase, drains, paps, removing,
                         delivered, failed, bootSet >>

SendToPubKeyNonDurably ==
    /\ HasId
    /\ \E d \in Dests, rawOk \in BOOLEAN : sendToPubKeyNonDurably(d, NextId, rawOk)
    /\ UNCHANGED << restarts, ogVars, lsuVars, calls >>

NdStep(r, ph) == (nd \ {r}) \cup { [id |-> r.id, dest |-> r.dest, ph |-> ph] }

\* The transport settles.  Resolved: handleMessageSentSuccess is called and
\* awaited.  Rejected: catch, handleMessageSentFailure is called and awaited.
NonDurableSendSettle ==
    \E r \in nd, ok \in BOOLEAN, t \in Timestamps :
       /\ r.ph = "sending"
       /\ inflight' = inflight \ { NdSend(r.id, r.dest) }
       /\ IF ok
          THEN /\ ev' = SuccessEv(r.id, TRUE)
               /\ nd' = NdStep(r, "handling")
               /\ delivered' = delivered \cup {r.id}
               /\ UNCHANGED failed
          ELSE /\ ev' = FailureEv(r.id)
               /\ nd' = NdStep(r, "failing")
               /\ failed' = failed \cup {r.id}
               /\ UNCHANGED delivered
       /\ UNCHANGED << msg, cache, callbacks, jobQueues, phase, drains, paps,
                       removing, restarts, ogVars, lsuVars, calls, bootSet >>

\* handleMessageSentSuccess settles.  Resolved: the call returns
\* effectiveTimestamp.  Rejected: catch, handleMessageSentFailure.
NonDurableSuccessHandlerSettle ==
    \E r \in nd, ok \in BOOLEAN :
       /\ r.ph = "handling"
       /\ IF ok
          THEN /\ Mark(r.id, "ndOk")
               /\ nd' = nd \ {r}
               /\ ev' = NoEv
          ELSE /\ ev' = FailureEv(r.id)
               /\ nd' = NdStep(r, "failing")
               /\ UNCHANGED msg
       /\ UNCHANGED << cache, callbacks, jobQueues, phase, inflight, drains, paps,
                       removing, restarts, ogVars, lsuVars, calls, delivered, failed, bootSet >>

\* handleMessageSentFailure settles.  Resolved: the call returns null.
\* Rejected: the rejection leaves the catch block, to the caller.
NonDurableFailureHandlerSettle ==
    \E r \in nd, ok \in BOOLEAN :
       /\ r.ph = "failing"
       /\ Mark(r.id, IF ok THEN "ndNull" ELSE "ndThrew")
       /\ nd' = nd \ {r}
       /\ ev' = NoEv
       /\ UNCHANGED << cache, callbacks, jobQueues, phase, inflight, drains, paps,
                       removing, restarts, ogVars, lsuVars, calls, delivered, failed, bootSet >>

\* ------------------------------------------------------------ the process
\* Mutant of the constructor: processAllPending is not called.
Restart_NoProcessAllPending ==
    /\ restarts < MaxRestarts
    /\ restarts' = restarts + 1
    /\ callbacks' = {}
    /\ jobQueues' = [d \in Dests |-> << >>]
    /\ phase' = [d \in Dests |-> "idle"]
    /\ inflight' = {}
    /\ drains' = {}
    /\ removing' = {}
    /\ nd' = {}
    /\ paps' = 0
    /\ ev' = NoEv
    /\ bootSet' = CachedIds(cache)
    /\ UNCHANGED << msg, cache, calls, delivered, failed, ogVars, lsuVars >>

\* The process stops and starts again: the persisted cache is what is left,
\* and the constructor of MessageQueue calls processAllPending.
Restart ==
    /\ restarts < MaxRestarts
    /\ restarts' = restarts + 1
    /\ callbacks' = {}
    /\ jobQueues' = [d \in Dests |-> << >>]
    /\ phase' = [d \in Dests |-> "idle"]
    /\ inflight' = {}
    /\ drains' = {}
    /\ removing' = {}
    /\ nd' = {}
    /\ paps' = 1
    /\ ev' = NoEv
    /\ bootSet' = CachedIds(cache)
    /\ UNCHANGED << msg, cache, calls, delivered, failed, ogVars, lsuVars >>

\* No open-group call has been made.
OgIdle ==
    /\ og = {}
    /\ ogLog = [i \in OgIds |-> {}]

\* LibSessionUtil has not been used.
LsuIdle ==
    /\ keyPresent = TRUE
    /\ dumpTable = << >>
    /\ wrappers = << >>
    /\ initRun = << >>
    /\ marking = {}
    /\ lsuLog = << >>

\* The queue after construction on an empty cache.
MqIdle ==
    /\ msg = [i \in Ids |-> "unused"]
    /\ cache = << >>
    /\ callbacks = {}
    /\ jobQueues = [d \in Dests |-> << >>]
    /\ phase = [d \in Dests |-> "idle"]
    /\ inflight = {}
    /\ drains = {}
    /\ paps = 0
    /\ removing = {}
    /\ nd = {}
    /\ restarts = 0
    /\ calls = 0
    /\ ev = NoEv
    /\ delivered = {}
    /\ failed = {}
    /\ bootSet = {}

Init == MqIdle /\ OgIdle /\ LsuIdle

Next ==
    \/ SendToPubKey
    \/ SendToGroup
    \/ SendToGroupV2
    \/ SendSyncMessage
    \/ SendToPubKeyNonDurably
    \/ ProcessPendingCall
    \/ ProcessPendingResume
    \/ ProcessAllPendingCall
    \/ ProcessAllPendingResume
    \/ JobStart
    \/ SendResolve
    \/ SendReject
    \/ SuccessHandlerSettle
    \/ CallbackSettle
    \/ RemoveComplete
    \/ NonDurableSendSettle
    \/ NonDurableSuccessHandlerSettle
    \/ NonDurableFailureHandlerSettle
    \/ Restart

Spec == Init /\ [][Next]_vars

\* The durable path alone, under fair scheduling: a suspended call resumes, a
\* queue with a job and nothing running starts it, the transport, the
\* handlers and the cache settle what they were given.
NextDurable ==
    \/ SendToPubKey
    \/ SendSyncMessage
    \/ ProcessPendingResume
    \/ ProcessAllPendingResume
    \/ JobStart
    \/ SendResolve
    \/ SendReject
    \/ SuccessHandlerSettle
    \/ CallbackSettle
    \/ RemoveComplete
    \/ Restart

Fairness ==
    /\ WF_vars(ProcessPendingResume)
    /\ WF_vars(ProcessAllPendingResume)
    /\ WF_vars(JobStart)
    /\ WF_vars(SendResolve \/ SendReject)
    /\ WF_vars(SuccessHandlerSettle)
    /\ WF_vars(CallbackSettle)
    /\ WF_vars(RemoveComplete)

SpecDurableFair == Init /\ [][NextDurable]_vars /\ Fairness

\* The same, with a transport that need not settle the sends to one
\* destination.
SlowDest == "A"

FairnessButSlowDest ==
    /\ WF_vars(ProcessPendingResume)
    /\ WF_vars(ProcessAllPendingResume)
    /\ WF_vars(JobStart)
    /\ WF_vars((SendResolve \/ SendReject) /\ \E s \in inflight \ inflight' : s.dest # SlowDest)
    /\ WF_vars(SuccessHandlerSettle)
    /\ WF_vars(CallbackSettle)
    /\ WF_vars(RemoveComplete)

SpecSlowDest == Init /\ [][NextDurable]_vars /\ FairnessButSlowDest

\* ------------------------------------------------------------ open groups
\* What the open-group server answers as serverId: nothing, or a number.
ServerIds ==
    { [present |-> FALSE, v |-> 0] } \cup { [present |-> TRUE, v |-> n] : n \in {-2, -1, 0, 1} }

\* `!serverId` of JavaScript: undefined and 0 are falsy.
Falsy(serverId) == ~serverId.present \/ serverId.v = 0

OgFree == { i \in OgIds : ogLog[i] = {} /\ \A r \in og : r.id # i }

OgNext == CHOOSE i \in OgFree : \A j \in OgFree : i <= j

OgLogged(id, what) == ogLog' = [ogLog EXCEPT ![id] = @ \cup {what}]

OgStep(r, ph) == (og \ {r}) \cup { [id |-> r.id, op |-> r.op, ph |-> ph] }

\* The catch block of both open-group sends: handleMessageSentFailure is
\* called and awaited.
ogCatch(r) ==
    /\ og' = OgStep(r, "failing")
    /\ OgLogged(r.id, "failure")

\* sendToOpenGroupV2, up to its first await: a reaction goes to
\* sendSogsReactionOnionV4, anything else to MessageSender.sendToOpenGroupV2.
sendToOpenGroupV2(id, reaction) ==
    IF reaction
    THEN /\ og' = og \cup { [id |-> id, op |-> "og", ph |-> "reacting"] }
         /\ OgLogged(id, "reaction")
    ELSE /\ og' = og \cup { [id |-> id, op |-> "og", ph |-> "sending"] }
         /\ OgLogged(id, "send")

\* sendToOpenGroupV2BlindedRequest, up to its first await: throws into its
\* own catch block when the recipient is not a blinded id.
sendToOpenGroupV2BlindedRequest(id, isBlinded) ==
    IF ~isBlinded
    THEN /\ og' = og \cup { [id |-> id, op |-> "blinded", ph |-> "failing"] }
         /\ OgLogged(id, "failure")
    ELSE /\ og' = og \cup { [id |-> id, op |-> "blinded", ph |-> "sending"] }
         /\ OgLogged(id, "send")

SendToOpenGroupV2 ==
    /\ OgFree # {}
    /\ \E reaction \in BOOLEAN : sendToOpenGroupV2(OgNext, reaction)
    /\ UNCHANGED << mqVars, lsuVars >>

SendToOpenGroupV2BlindedRequest ==
    /\ OgFree # {}
    /\ \E isBlinded \in BOOLEAN : sendToOpenGroupV2BlindedRequest(OgNext, isBlinded)
    /\ UNCHANGED << mqVars, lsuVars >>

\* Mutant: the `return` after the reaction is missing.
ogReactionResolved_FallThrough(r) ==
    /\ og' = OgStep(r, "sending")
    /\ OgLogged(r.id, "send")

\* sendSogsReactionOnionV4 resolved: the call returns.
ogReactionResolved(r) ==
    /\ og' = og \ {r}
    /\ UNCHANGED ogLog

\* sendSogsReactionOnionV4 settles.
OgReactionSettle ==
    \E r \in og :
       /\ r.ph = "reacting"
       /\ \/ ogReactionResolved(r)
          \/ ogCatch(r)
       /\ UNCHANGED << mqVars, lsuVars >>

\* The send resolved with a serverId: the check of the serverId, whose throw
\* enters the catch block, then handlePublicMessageSentSuccess is called and
\* awaited.
ogSendResolved(r, serverId) ==
    IF Falsy(serverId) \/ (serverId.present /\ serverId.v = -1)
    THEN /\ og' = OgStep(r, "failing")
         /\ ogLog' = [ogLog EXCEPT ![r.id] = @ \cup {"invalidServerId", "failure"}]
    ELSE /\ og' = OgStep(r, "handling")
         /\ OgLogged(r.id, "success")

\* MessageSender.sendToOpenGroupV2 / sendToOpenGroupV2BlindedRequest settles.
OgSendSettle ==
    \E r \in og :
       /\ r.ph = "sending"
       /\ \/ \E serverId \in ServerIds : ogSendResolved(r, serverId)
          \/ ogCatch(r)
       /\ UNCHANGED << mqVars, lsuVars >>

\* handlePublicMessageSentSuccess settles: the call returns, or the rejection
\* enters the catch block.
OgSuccessHandlerSettle ==
    \E r \in og :
       /\ r.ph = "handling"
       /\ \/ og' = og \ {r} /\ UNCHANGED ogLog
          \/ ogCatch(r)
       /\ UNCHANGED << mqVars, lsuVars >>

\* handleMessageSentFailure settles: the call returns, or the rejection leaves
\* the catch block, to the caller.
OgFailureHandlerSettle ==
    \E r \in og :
       /\ r.ph = "failing"
       /\ og' = og \ {r}
       /\ \/ UNCHANGED ogLog
          \/ OgLogged(r.id, "threw")
       /\ UNCHANGED << mqVars, lsuVars >>

\* The queue as the open-group calls may find it: empty, or with a message
\* for "A" cached and its job queued.
InitOpenGroup ==
    /\ OgIdle
    /\ LsuIdle
    /\ \E busy \in BOOLEAN :
          /\ msg = [i \in Ids |-> IF busy /\ i = 1 THEN "admitted" ELSE "unused"]
          /\ cache = IF busy THEN << [id |-> 1, device |-> "A", isGroup |-> FALSE] >>
                     ELSE << >>
          /\ jobQueues = [d \in Dests |-> IF busy /\ d = "A"
                                          THEN << [id |-> 1, sync |-> FALSE] >>
                                          ELSE << >>]
    /\ callbacks = {}
    /\ phase = [d \in Dests |-> "idle"]
    /\ inflight = {}
    /\ drains = {}
    /\ paps = 0
    /\ removing = {}
    /\ nd = {}
    /\ restarts = 0
    /\ calls = 0
    /\ ev = NoEv
    /\ delivered = {}
    /\ failed = {}
    /\ bootSet = {}

NextOpenGroup ==
    \/ SendToOpenGroupV2
    \/ SendToOpenGroupV2BlindedRequest
    \/ OgReactionSettle
    \/ OgSendSettle
    \/ OgSuccessHandlerSettle
    \/ OgFailureHandlerSettle

SpecOpenGroup == InitOpenGroup /\ [][NextOpenGroup]_vars

\* ---------------------------------------------------------- LibSessionUtil
requiredUserVariants ==
    << "UserConfig", "ContactsConfig", "UserGroupsConfig", "ConvoInfoVolatileConfig" >>

\* The wrapper of one group, next to the four user wrappers.
GroupVariant == "MetaGroupConfig-g1"

GroupVariant2 == "MetaGroupConfig-g2"

GroupVariants == {GroupVariant, GroupVariant2}

Variants == Range(requiredUserVariants) \cup GroupVariants

Pubkeys == {Us, "B"}             \* our own account and another one

Hashes == {"h1", "h2"}           \* message hashes a push is confirmed with

isUserConfigWrapperType(variant) == variant \in Range(requiredUserVariants)

isMetaWrapperType(variant) == variant \in GroupVariants

\* The merge engine of one variant, as the worker holds it.
NoWrapper ==
    [init |-> "none", dirty |-> FALSE, seqno |-> 0, hashes |-> {}, needsDump |-> FALSE]

\* GenericWrapperActions.init(variant, key, dump | null)
wrapperInit(fromSnapshot) ==
    [init |-> IF fromSnapshot THEN "snapshot" ELSE "fresh",
     dirty |-> FALSE, seqno |-> 0, hashes |-> {}, needsDump |-> ~fromSnapshot]

\* A local change of the config.
wrapperEdit(w) == [w EXCEPT !.dirty = TRUE, !.seqno = @ + 1, !.needsDump = TRUE]

\* GenericWrapperActions.needsPush / push / confirmPushed / needsDump
needsPush(w) == w.dirty

push(w) == [seqno |-> w.seqno, hashes |-> w.hashes]

confirmPushed(w, seqno, hash) ==
    IF w.dirty /\ seqno = w.seqno
    THEN [w EXCEPT !.dirty = FALSE, !.hashes = {hash}, !.needsDump = TRUE]
    ELSE w

needsDump(w) == w.needsDump

\* Mutant: two kinds are exchanged.
variantToKind_Exchanged(variant) ==
    CASE variant = "UserConfig" -> "USER_PROFILE"
      [] variant = "ContactsConfig" -> "CONTACTS"
      [] variant = "UserGroupsConfig" -> "CONVO_INFO_VOLATILE"
      [] variant = "ConvoInfoVolatileConfig" -> "USER_GROUPS"
      [] OTHER -> "assertUnreachable"

variantToKind(variant) ==
    CASE variant = "UserConfig" -> "USER_PROFILE"
      [] variant = "ContactsConfig" -> "CONTACTS"
      [] variant = "UserGroupsConfig" -> "USER_GROUPS"
      [] variant = "ConvoInfoVolatileConfig" -> "CONVO_INFO_VOLATILE"
      [] OTHER -> "assertUnreachable"

kindToVariant(kind) ==
    CASE kind = "USER_PROFILE" -> "UserConfig"
      [] kind = "CONTACTS" -> "ContactsConfig"
      [] kind = "USER_GROUPS" -> "UserGroupsConfig"
      [] kind = "CONVO_INFO_VOLATILE" -> "ConvoInfoVolatileConfig"
      [] OTHER -> "assertUnreachable"

\* ConfigDumpData.getAllDumpsWithoutData()
RECURSIVE getAllDumpsWithoutData(_)
getAllDumpsWithoutData(table) ==
    IF table = << >> THEN << >>
    ELSE << [variant |-> Head(table).variant, publicKey |-> Head(table).publicKey] >>
         \o getAllDumpsWithoutData(Tail(table))

\* Mutant: no placeholder is added.
PushPlaceholders_None(dumps, required) == dumps

\* The forEach over requiredUserVariants in pendingChangesForPubkey: a
\* placeholder for every required variant without a dump of ours.
RECURSIVE PushPlaceholders(_, _)
PushPlaceholders(dumps, required) ==
    IF required = << >> THEN dumps
    ELSE LET requiredVariant == Head(required)
             found == \E i \in 1..Len(dumps) :
                         dumps[i].publicKey = Us /\ dumps[i].variant = requiredVariant
         IN  PushPlaceholders(
                 IF found THEN dumps
                 ELSE Append(dumps, [variant |-> requiredVariant, publicKey |-> Us]),
                 Tail(required))

\* The loop over the dumps in pendingChangesForPubkey: one result for every
\* dump whose variant is a user variant that needs a push.
RECURSIVE PendingLoop(_, _)
PendingLoop(dumps, w) ==
    IF dumps = << >> THEN << >>
    ELSE LET variant == Head(dumps).variant
         IN  IF ~isUserConfigWrapperType(variant) THEN PendingLoop(Tail(dumps), w)
             ELSE IF ~needsPush(w[variant]) THEN PendingLoop(Tail(dumps), w)
             ELSE << [variant |-> variant,
                      kind |-> variantToKind(variant),
                      seqno |-> push(w[variant]).seqno,
                      oldMessageHashes |-> push(w[variant]).hashes] >>
                  \o PendingLoop(Tail(dumps), w)

\* What the last LibSessionUtil call was given, did and returned.
LsuLog(op, pubkey, variant, seqno, hash, results, confirmed, outcome, ret) ==
    [op |-> op, pubkey |-> pubkey, variant |-> variant, seqno |-> seqno, hash |-> hash,
     results |-> results, confirmed |-> confirmed, outcome |-> outcome, ret |-> ret]

NoLog == LsuLog("none", Us, "UserConfig", 0, "h1", << >>, << >>, "none", FALSE)

\* pendingChangesForPubkey: the OutgoingConfResults, in order.
pendingChangesForPubkey(pubkey, table, w) ==
    LET dumps == getAllDumpsWithoutData(table)
    IN  PendingLoop(IF pubkey = Us
                    THEN PushPlaceholders(dumps, requiredUserVariants)
                    ELSE dumps,
                    w)

\* Mutant: a variant is taken as pushed as soon as it is emitted.
PendingChangesForPubkey_CleansEmitted ==
    /\ initRun.pc = "done"
    /\ \E pubkey \in Pubkeys :
          LET results == pendingChangesForPubkey(pubkey, dumpTable, wrappers)
              emitted == { results[i].variant : i \in 1..Len(results) }
          IN  /\ lsuLog' = LsuLog("pendingChangesForPubkey", pubkey, "UserConfig", 0, "h1",
                                  results, << >>, "returned", FALSE)
              /\ wrappers' = [v \in DOMAIN wrappers |->
                                 IF v \in emitted THEN [wrappers[v] EXCEPT !.dirty = FALSE]
                                 ELSE wrappers[v]]
    /\ UNCHANGED << keyPresent, dumpTable, initRun, marking, mqVars, ogVars >>

PendingChangesForPubkey ==
    /\ initRun.pc = "done"
    /\ \E pubkey \in Pubkeys :
          lsuLog' = LsuLog("pendingChangesForPubkey", pubkey, "UserConfig", 0, "h1",
                           pendingChangesForPubkey(pubkey, dumpTable, wrappers),
                           << >>, "returned", FALSE)
    /\ UNCHANGED << keyPresent, dumpTable, wrappers, initRun, marking, mqVars, ogVars >>

\* Mutant of markAsPushed: the pubkey is not compared with our own.
markAsPushed_NoOwnerCheck(variant, pubkey, seqno, hash) ==
    /\ wrappers' = [wrappers EXCEPT ![variant] = confirmPushed(@, seqno, hash)]
    /\ marking' = marking \cup { [variant |-> variant, seqno |-> seqno, hash |-> hash] }
    /\ lsuLog' = LsuLog("markAsPushed", pubkey, variant, seqno, hash, << >>,
                        << [variant |-> variant, seqno |-> seqno, hash |-> hash] >>,
                        "suspended", FALSE)

\* markAsPushed, up to `await GenericWrapperActions.confirmPushed`.
markAsPushed(variant, pubkey, seqno, hash) ==
    IF pubkey # Us
    THEN /\ lsuLog' = LsuLog("markAsPushed", pubkey, variant, seqno, hash,
                             << >>, << >>, "threw", FALSE)
         /\ UNCHANGED << wrappers, marking >>
    ELSE /\ wrappers' = [wrappers EXCEPT ![variant] = confirmPushed(@, seqno, hash)]
         /\ marking' = marking \cup { [variant |-> variant, seqno |-> seqno, hash |-> hash] }
         /\ lsuLog' = LsuLog("markAsPushed", pubkey, variant, seqno, hash, << >>,
                             << [variant |-> variant, seqno |-> seqno, hash |-> hash] >>,
                             "suspended", FALSE)

MarkAsPushed ==
    /\ initRun.pc = "done"
    /\ Cardinality(marking) < MaxMarking
    /\ \E variant \in Range(requiredUserVariants), pubkey \in Pubkeys,
          seqno \in 0..MaxEdits, hash \in Hashes :
          markAsPushed(variant, pubkey, seqno, hash)
    /\ UNCHANGED << keyPresent, dumpTable, initRun, mqVars, ogVars >>

\* Mutant of the return of markAsPushed: true whatever needsDump says.
markAsPushedReturn_AlwaysTrue(m) ==
    /\ marking' = marking \ {m}
    /\ lsuLog' = LsuLog("markAsPushed", Us, m.variant, m.seqno, m.hash, << >>, << >>,
                        "returned", TRUE)

\* markAsPushed after confirmPushed: `return GenericWrapperActions.needsDump(variant)`.
markAsPushedReturn(m) ==
    /\ marking' = marking \ {m}
    /\ lsuLog' = LsuLog("markAsPushed", Us, m.variant, m.seqno, m.hash, << >>, << >>,
                        "returned", needsDump(wrappers[m.variant]))

MarkAsPushedReturn ==
    /\ \E m \in marking : markAsPushedReturn(m)
    /\ UNCHANGED << keyPresent, dumpTable, wrappers, initRun, mqVars, ogVars >>

SumSeqno == LET RECURSIVE Sum(_)
                Sum(vs) == IF vs = << >> THEN 0
                           ELSE wrappers[Head(vs)].seqno + Sum(Tail(vs))
            IN  Sum(requiredUserVariants)

\* The user changes a config: the wrapper becomes dirty.
LocalEdit ==
    /\ initRun.pc = "done"
    /\ SumSeqno < MaxEdits
    /\ \E variant \in Range(requiredUserVariants) :
          wrappers' = [wrappers EXCEPT ![variant] = wrapperEdit(@)]
    /\ lsuLog' = NoLog
    /\ UNCHANGED << keyPresent, dumpTable, initRun, marking, mqVars, ogVars >>

\* A dump row as persisted.
DumpRow(variant, publicKey, hasData) ==
    [variant |-> variant, publicKey |-> publicKey, hasData |-> hasData]

\* The rows of a table, in a fixed order, restricted to those of `keep`.
RECURSIVE SelectRows(_, _)
SelectRows(rows, keep) ==
    IF rows = << >> THEN << >>
    ELSE (IF Head(rows) \in keep THEN << Head(rows) >> ELSE << >>)
         \o SelectRows(Tail(rows), keep)

\* Our own dumps of the four user variants, a dump of UserConfig stored under
\* another account, and the dump of a group.
AllRows ==
    << DumpRow("UserConfig", Us, TRUE),
       DumpRow("UserConfig", "B", TRUE),
       DumpRow("ContactsConfig", Us, TRUE),
       DumpRow(GroupVariant, "g1", TRUE),
       DumpRow("UserGroupsConfig", Us, TRUE),
       DumpRow("ConvoInfoVolatileConfig", Us, TRUE) >>

InitDone == [pc |-> "done", dumps |-> << >>, index |-> 0, built |-> {}, missing |-> << >>]

\* The wrappers are initialized; the table holds our dumps, except perhaps
\* that of UserConfig, and perhaps the two other rows.  A group that has a
\* dump may have changes of its own to push.
InitLibSession ==
    /\ MqIdle
    /\ OgIdle
    /\ keyPresent = TRUE
    /\ \E optional \in SUBSET { DumpRow("UserConfig", Us, TRUE),
                                DumpRow("UserConfig", "B", TRUE),
                                DumpRow(GroupVariant, "g1", TRUE) } :
          dumpTable = SelectRows(AllRows,
                                 optional \cup { DumpRow(v, Us, TRUE) :
                                     v \in Range(requiredUserVariants) \ {"UserConfig"} })
    /\ \E groupDirty \in BOOLEAN :
          wrappers = [v \in Variants |->
                         IF /\ v = GroupVariant
                            /\ groupDirty
                            /\ \E i \in 1..Len(dumpTable) : dumpTable[i].variant = v
                         THEN wrapperEdit(wrapperInit(TRUE))
                         ELSE wrapperInit(TRUE)]
    /\ initRun = InitDone
    /\ marking = {}
    /\ lsuLog = NoLog

NextLibSession ==
    \/ PendingChangesForPubkey
    \/ MarkAsPushed
    \/ MarkAsPushedReturn
    \/ LocalEdit

SpecLibSession == InitLibSession /\ [][NextLibSession]_vars

\* ------------------------------------- initializeLibSessionUtilWrappers
InitIdle == [pc |-> "idle", dumps |-> << >>, index |-> 0, built |-> {}, missing |-> << >>]

\* lodash difference(required, built): the required variants not built, in order.
RECURSIVE difference(_, _)
difference(required, built) ==
    IF required = << >> THEN << >>
    ELSE (IF Head(required) \in built THEN << >> ELSE << Head(required) >>)
         \o difference(Tail(required), built)

\* Mutant: the call goes on without the private key.
initializeStart_NoKeyCheck ==
    /\ initRun' = [pc |-> "userLoop", dumps |-> dumpTable, index |-> 1,
                   built |-> {}, missing |-> << >>]
    /\ UNCHANGED << dumpTable, wrappers >>

\* The call up to the first loop: the key pair is fetched, the call throws
\* when there is no private key, otherwise all dumps are read.
initializeStart ==
    IF ~keyPresent
    THEN /\ initRun' = [initRun EXCEPT !.pc = "threw"]
         /\ UNCHANGED << dumpTable, wrappers >>
    ELSE /\ initRun' = [pc |-> "userLoop", dumps |-> dumpTable, index |-> 1,
                        built |-> {}, missing |-> << >>]
         /\ UNCHANGED << dumpTable, wrappers >>

InitializeStart ==
    /\ initRun.pc = "idle"
    /\ initializeStart
    /\ UNCHANGED << keyPresent, marking, lsuLog, mqVars, ogVars >>

\* One turn of the loop over the dumps for the user wrappers:
\* GenericWrapperActions.init with the data of the dump, null when it is
\* empty; a failure is thrown again.
initUserDump(dump, ok) ==
    IF ~isUserConfigWrapperType(dump.variant)
    THEN /\ initRun' = [initRun EXCEPT !.index = @ + 1]
         /\ UNCHANGED << dumpTable, wrappers >>
    ELSE IF ok
    THEN /\ wrappers' = [wrappers EXCEPT ![dump.variant] = wrapperInit(dump.hasData)]
         /\ initRun' = [initRun EXCEPT !.index = @ + 1,
                                       !.built = @ \cup {dump.variant}]
         /\ UNCHANGED dumpTable
    ELSE /\ initRun' = [initRun EXCEPT !.pc = "threw"]
         /\ UNCHANGED << dumpTable, wrappers >>

InitUserLoopStep ==
    /\ initRun.pc = "userLoop"
    /\ initRun.index <= Len(initRun.dumps)
    /\ \E ok \in BOOLEAN : initUserDump(initRun.dumps[initRun.index], ok)
    /\ UNCHANGED << keyPresent, marking, lsuLog, mqVars, ogVars >>

\* After the loop: the required variants that were not built.
InitUserLoopEnd ==
    /\ initRun.pc = "userLoop"
    /\ initRun.index > Len(initRun.dumps)
    /\ initRun' = [initRun EXCEPT !.pc = "missingLoop", !.index = 1,
                                  !.missing = difference(requiredUserVariants, initRun.built)]
    /\ UNCHANGED << keyPresent, dumpTable, wrappers, marking, lsuLog, mqVars, ogVars >>

\* Mutant: the new wrapper is not dumped to the database.
initMissingVariant_NoSave(missingVariant, outcome) ==
    IF outcome = "initFails"
    THEN /\ initRun' = [initRun EXCEPT !.pc = "threw"]
         /\ UNCHANGED << dumpTable, wrappers >>
    ELSE /\ wrappers' = [wrappers EXCEPT ![missingVariant] = wrapperInit(FALSE)]
         /\ initRun' = [initRun EXCEPT !.index = @ + 1]
         /\ UNCHANGED dumpTable

\* One turn of the loop over the missing variants: init without a dump, then
\* dump and saveConfigDump under our own pubkey.  Nothing is caught.
initMissingVariant(missingVariant, outcome) ==
    IF outcome = "initFails"
    THEN /\ initRun' = [initRun EXCEPT !.pc = "threw"]
         /\ UNCHANGED << dumpTable, wrappers >>
    ELSE IF outcome = "saveFails"
    THEN /\ wrappers' = [wrappers EXCEPT ![missingVariant] = wrapperInit(FALSE)]
         /\ initRun' = [initRun EXCEPT !.pc = "threw"]
         /\ UNCHANGED dumpTable
    ELSE /\ wrappers' = [wrappers EXCEPT ![missingVariant] =
                            [wrapperInit(FALSE) EXCEPT !.needsDump = FALSE]]
         /\ dumpTable' = Append(dumpTable, DumpRow(missingVariant, Us, TRUE))
         /\ initRun' = [initRun EXCEPT !.index = @ + 1]

InitMissingLoopStep ==
    /\ initRun.pc = "missingLoop"
    /\ initRun.index <= Len(initRun.missing)
    /\ \E outcome \in {"ok", "initFails", "saveFails"} :
          initMissingVariant(initRun.missing[initRun.index], outcome)
    /\ UNCHANGED << keyPresent, marking, lsuLog, mqVars, ogVars >>

\* After the loop: the key pair is fetched again, then the group dumps.
InitMissingLoopEnd ==
    /\ initRun.pc = "missingLoop"
    /\ initRun.index > Len(initRun.missing)
    /\ initRun' = [initRun EXCEPT !.pc = IF keyPresent THEN "groupLoop" ELSE "threw",
                                  !.index = 1]
    /\ UNCHANGED << keyPresent, dumpTable, wrappers, marking, lsuLog, mqVars, ogVars >>

\* Mutant: a failing group init is thrown again.
initGroupDump_Rethrow(dump, ok) ==
    /\ initRun' = IF isMetaWrapperType(dump.variant) /\ ~ok
                  THEN [initRun EXCEPT !.pc = "threw"]
                  ELSE [initRun EXCEPT !.index = @ + 1]
    /\ wrappers' = IF isMetaWrapperType(dump.variant) /\ ok
                   THEN [wrappers EXCEPT ![dump.variant] = wrapperInit(TRUE)]
                   ELSE wrappers
    /\ UNCHANGED dumpTable

\* One turn of the loop over the dumps for the group wrappers: getGroup and
\* MetaGroupWrapperActions.init; a failure is logged and the loop goes on.
initGroupDump(dump, ok) ==
    /\ initRun' = [initRun EXCEPT !.index = @ + 1]
    /\ wrappers' = IF isMetaWrapperType(dump.variant) /\ ok
                   THEN [wrappers EXCEPT ![dump.variant] = wrapperInit(TRUE)]
                   ELSE wrappers
    /\ UNCHANGED dumpTable

InitGroupLoopStep ==
    /\ initRun.pc = "groupLoop"
    /\ initRun.index <= Len(initRun.dumps)
    /\ \E ok \in BOOLEAN : initGroupDump(initRun.dumps[initRun.index], ok)
    /\ UNCHANGED << keyPresent, marking, lsuLog, mqVars, ogVars >>

InitGroupLoopEnd ==
    /\ initRun.pc = "groupLoop"
    /\ initRun.index > Len(initRun.dumps)
    /\ initRun' = [initRun EXCEPT !.pc = "done"]
    /\ UNCHANGED << keyPresent, dumpTable, wrappers, marking, lsuLog, mqVars, ogVars >>

\* The rows a table may hold at startup; the data of our ContactsConfig dump
\* may be empty.
StartRows(emptyData) ==
    << DumpRow("UserConfig", Us, TRUE),
       DumpRow("UserConfig", "B", TRUE),
       DumpRow("ContactsConfig", Us, ~emptyData),
       DumpRow(GroupVariant, "g1", TRUE),
       DumpRow(GroupVariant2, "g2", TRUE),
       DumpRow("UserGroupsConfig", Us, TRUE),
       DumpRow("ConvoInfoVolatileConfig", Us, TRUE) >>

\* Startup: any set of persisted dumps, the private key there or not, no
\* wrapper initialized.
InitLibSessionInit ==
    /\ MqIdle
    /\ OgIdle
    /\ keyPresent \in BOOLEAN
    /\ \E emptyData \in BOOLEAN :
          \E keep \in SUBSET Range(StartRows(emptyData)) :
             dumpTable = SelectRows(StartRows(emptyData), keep)
    /\ wrappers = [v \in Variants |-> NoWrapper]
    /\ initRun = InitIdle
    /\ marking = {}
    /\ lsuLog = NoLog

NextLibSessionInit ==
    \/ InitializeStart
    \/ InitUserLoopStep
    \/ InitUserLoopEnd
    \/ InitMissingLoopStep
    \/ InitMissingLoopEnd
    \/ InitGroupLoopStep
    \/ InitGroupLoopEnd

SpecLibSessionInit == InitLibSessionInit /\ [][NextLibSessionInit]_vars

\* ------------------------------------------- kindToVariant, variantToKind
MaxConversions == 2

\* SignalService.SharedConfigMessage.Kind
Kinds == {"USER_PROFILE", "CONTACTS", "USER_GROUPS", "CONVO_INFO_VOLATILE"}

\* Values a caller may pass as a variant: every wrapper type, the group ones
\* included.
VariantInputs == Variants

\* Values a caller may pass as a kind: the four kinds and a number that is
\* none of them.
KindInputs == Kinds \cup {"KIND_99"}

Conversion(op, input, output) == [op |-> op, input |-> input, output |-> output]

\* The value to convert: a fresh one, or the result of the last conversion.
LastOutput == IF lsuLog = << >> THEN {} ELSE { lsuLog[Len(lsuLog)].output }

VariantToKind ==
    /\ Len(lsuLog) < MaxConversions
    /\ \E variant \in VariantInputs \cup LastOutput :
          lsuLog' = Append(lsuLog, Conversion("variantToKind", variant, variantToKind(variant)))
    /\ UNCHANGED << keyPresent, dumpTable, wrappers, initRun, marking, mqVars, ogVars >>

KindToVariant ==
    /\ Len(lsuLog) < MaxConversions
    /\ \E kind \in KindInputs \cup LastOutput :
          lsuLog' = Append(lsuLog, Conversion("kindToVariant", kind, kindToVariant(kind)))
    /\ UNCHANGED << keyPresent, dumpTable, wrappers, initRun, marking, mqVars, ogVars >>

InitKindVariant == MqIdle /\ OgIdle /\ LsuIdle

NextKindVariant == VariantToKind \/ KindToVariant

SpecKindVariant == InitKindVariant /\ [][NextKindVariant]_vars

\* ------------------------------------------------------------------ properties
Settled == delivered \cup failed

InFlight(id) == \E s \in inflight : s.id = id

Queued(id) == \E d \in Dests : has(jobQueues[d], id)

\* The identifier left no trace in the queue: not cached, no callback, no job,
\* never handed to the transport.
NoTrace(id) ==
    /\ ~InCache(id)
    /\ id \notin callbacks
    /\ ~Queued(id)
    /\ ~InFlight(id)
    /\ id \notin Settled

\* A step that touches neither the cache, nor the callback table, nor the job
\* queues, nor the transport.
NoIO ==
    UNCHANGED << cache, callbacks, jobQueues, phase, inflight, drains, paps,
                 removing, nd, delivered, failed >>

\* C1 (as stated): in every reachable state, for every destination, at most
\* one transport send to that destination is in flight.
C1_OneSendPerDestination ==
    \A d \in Dests : Cardinality({ s \in inflight : s.dest = d }) <= 1

\* C1 (amended): in every reachable state, for every destination, at most one
\* transport send started by a job of that destination's queue is in flight;
\* the sends of sendToPubKeyNonDurably do not go through the queue.
C1_OneQueuedSendPerDestination ==
    \A d \in Dests : Cardinality({ s \in inflight : s.dest = d /\ s.via = "job" }) <= 1

\* A job's send is in flight while another job waits behind it.
C1_Witness == \E d \in Dests : JobSending(d) /\ Len(jobQueues[d]) > 1

\* C2: for two messages cached for the same destination, the one inserted
\* first has its transport send settled before the send of the other starts.
C2_FifoPerDestination ==
    \A i, j \in 1..Len(cache) :
        (i < j /\ cache[i].device = cache[j].device
               /\ (InFlight(cache[j].id) \/ cache[j].id \in Settled))
            => cache[i].id \in Settled

\* The second of two messages cached for one destination is being sent.
C2_Witness ==
    \E i, j \in 1..Len(cache) :
        i < j /\ cache[i].device = cache[j].device /\ InFlight(cache[j].id)

\* C3: an admitted message leaves the cache only after its job's transport
\* send has settled, and once it has left the cache it never comes back, so it
\* is removed exactly once.
C3_RemovedOnceAfterSettle ==
    /\ [](\A id \in Ids : (msg[id] = "admitted" /\ id \notin Settled) => InCache(id))
    /\ [](Cardinality(CachedIds(cache)) = Len(cache))
    /\ [][\A id \in Ids : (~InCache(id) /\ InCache(id)') => msg[id] = "unused"]_vars

\* An admitted message whose send has settled and that has left the cache.
C3_Witness ==
    \E id \in Ids : msg[id] = "admitted" /\ id \in Settled /\ ~InCache(id)

\* C4: a restart leaves the cache as it was, and once the processAllPending of
\* the constructor and the processPending calls it made have run, every
\* message cached at the restart has had a job enqueued.
C4_ReadmittedAfterRestart ==
    /\ [][restarts' # restarts => cache' = cache]_vars
    /\ []((restarts > 0 /\ paps = 0 /\ drains = {}) =>
            \A i \in 1..Len(cache) :
                cache[i].id \in bootSet =>
                    \/ has(jobQueues[cache[i].device], cache[i].id)
                    \/ cache[i].id \in removing)

\* A message that was cached at the restart is handed to the transport.
C4_Witness ==
    \E id \in bootSet : restarts > 0 /\ InCache(id) /\ InFlight(id)

\* C5 (as stated): a message whose job failed and whose send never succeeded
\* is still in the cache.
C5_FailedStaysCached ==
    \A id \in failed \ delivered : msg[id] = "admitted" => InCache(id)

\* C5 (amended): the job of a message whose send failed starts the removal of
\* the message from the cache, and a job is only ever enqueued for a message
\* that is in the cache: once removed, the message is not retried.
C5_FailedIsRemoved ==
    [][/\ \A d \in Dests :
            (restarts' = restarts /\ JobSending(d) /\ phase'[d] = "idle")
                => HeadId(d) \in removing'
       /\ \A d \in Dests : \A i \in 1..Len(jobQueues'[d]) :
            ~has(jobQueues[d], jobQueues'[d][i].id) => InCache(jobQueues'[d][i].id)
      ]_vars

\* A message whose send failed has left the cache.
C5_Witness ==
    \E id \in failed \ delivered : msg[id] = "admitted" /\ ~InCache(id)

\* C6: a sendToPubKey or sendToGroup call whose destination is the local
\* identity and whose message is not a sync message returns without error and
\* leaves the cache and the job queues as they were; the transport is never
\* invoked for that message.
C6_SelfSendDropped ==
    /\ [](\A id \in Ids : msg[id] = "dropped" => NoTrace(id))
    /\ [][(/\ HasId
           /\ \E m \in ContentMessages, cb \in BOOLEAN, addOk \in BOOLEAN :
                /\ ~m.syncTarget /\ ~isSyncMessage(m)
                /\ \/ sendToPubKey(Us, m, NextId, cb, FALSE, addOk)
                   \/ sendToGroup(m, Us, NextId, cb, addOk))
          => (msg'[NextId] = "dropped" /\ NoIO)]_vars

\* A call was dropped.
C6_Witness == \E id \in Ids : msg[id] = "dropped"

\* C7 (as stated): when the transport send of a job succeeds with timestamp
\* t, the success handler is invoked with t, neither handler is invoked for
\* that message afterwards, and the job ends by removing the message.
C7_SuccessHandledOnce ==
    [][\A d \in Dests :
          restarts' = restarts =>
            /\ (JobSending(d) /\ phase'[d] = "handling")
                  => ev' = SuccessEv(HeadId(d), TRUE)
            /\ phase[d] \in {"handling", "callback"}
                  => (ev'.failure # HeadId(d) /\ ev'.success # HeadId(d))
            /\ (phase[d] \in {"handling", "callback"} /\ phase'[d] = "idle")
                  => HeadId(d) \in removing'
      ]_vars

\* C8: when the transport send of a job fails, the failure handler is invoked
\* for the message and the success handler is not, the removal of the message
\* from the cache is started, and the queue goes on with its next job.
C8_SendFailureContained ==
    [][\A d \in Dests :
          (restarts' = restarts /\ JobSending(d) /\ phase'[d] = "idle") =>
            /\ ev' = FailureEv(HeadId(d))
            /\ HeadId(d) \in removing'
            /\ jobQueues' = [jobQueues EXCEPT ![d] = Tail(@)]
            /\ drains' = drains /\ paps' = paps
      ]_vars

\* The failure handler has just been called for a queued message whose send
\* failed, and its removal is under way.
C8_Witness ==
    \E id \in failed \ delivered :
        msg[id] = "admitted" /\ ev = FailureEv(id) /\ id \in removing

\* C9: no job queue ever holds two jobs with the same message identifier.
C9_OneJobPerIdentifier ==
    \A d \in Dests : \A i, j \in 1..Len(jobQueues[d]) :
        i # j => jobQueues[d][i].id # jobQueues[d][j].id

\* Two jobs of one queue enqueued by two processPending runs: the second run
\* found the job of the first and did not add it again.
C9_Witness ==
    \E d \in Dests :
        /\ Len(jobQueues[d]) = 2
        /\ jobQueues[d][1].sync # jobQueues[d][2].sync
        /\ InCache(jobQueues[d][1].id)

\* C10: sendToPubKey with a message that carries a syncTarget, called directly
\* or reached through sendToGroup or sendToGroupV2, throws and leaves the
\* cache, the callback table and the job queues as they were; the transport is
\* never invoked for that message.
C10_SyncTargetRejected ==
    /\ [](\A id \in Ids : msg[id] = "syncRejected" => NoTrace(id))
    /\ [][(/\ HasId
           /\ \E m \in ContentMessages, d \in Dests, cb \in BOOLEAN, addOk \in BOOLEAN :
                /\ m.syncTarget
                /\ \/ sendToPubKey(d, m, NextId, cb, FALSE, addOk)
                   \/ sendToGroup(m, d, NextId, cb, addOk)
                   \/ (m.destination # None /\ sendToGroupV2(m, NextId, cb, addOk)))
          => (msg'[NextId] = "syncRejected" /\ NoIO)]_vars

\* A call was rejected for its syncTarget.
C10_Witness == \E id \in Ids : msg[id] = "syncRejected"

C12_SyncMessageRefused ==
    /\ [](\A id \in Ids : msg[id] \in {"noop", "invalidSync"} => NoTrace(id))
    /\ [][HasId =>
            \A m \in ContentMessages, cb \in BOOLEAN, addOk \in BOOLEAN :
               /\ sendSyncMessage(FALSE, m, NextId, cb, addOk)
                     => (msg'[NextId] = "noop" /\ NoIO)
               /\ (m.kind # "unsend" /\ ~m.syncTarget
                        /\ sendSyncMessage(TRUE, m, NextId, cb, addOk))
                     => (msg'[NextId] = "invalidSync" /\ NoIO)
         ]_vars

\* One call without a message and one call with a message of the wrong class.
C12_Witness ==
    \E i, j \in Ids : msg[i] = "noop" /\ msg[j] = "invalidSync"

\* C13: sendToGroup sends to the explicit group key when there is one, and to
\* the groupId of the message otherwise; with neither it throws and changes
\* nothing; with a destination the message goes to sendToPubKey with the group
\* flag, so that what is added to the cache is marked as a group message.
C13_GroupDestination ==
    /\ [](\A id \in Ids : msg[id] = "invalidGroup" => NoTrace(id))
    /\ [][HasId =>
            \A m \in ContentMessages, g \in Dests \cup {None},
               cb \in BOOLEAN, addOk \in BOOLEAN :
               (m.kind \in {"expirationTimer", "closedGroup"}
                     /\ sendToGroup(m, g, NextId, cb, addOk)) =>
                  LET resolved == IF g # None THEN g ELSE m.groupId
                  IN  /\ resolved = None => (msg'[NextId] = "invalidGroup" /\ NoIO)
                      /\ resolved # None => sendToPubKey(resolved, m, NextId, cb, TRUE, addOk)
                      /\ (resolved \notin {None, Us} /\ addOk) =>
                            cache' = Append(cache, [id |-> NextId, device |-> resolved,
                                                    isGroup |-> TRUE])
         ]_vars

\* A group message is in the cache, marked as such, and a sendToGroup call
\* without any destination was refused.
C13_Witness ==
    /\ \E i \in 1..Len(cache) : cache[i].isGroup
    /\ \E id \in Ids : msg[id] = "invalidGroup"

\* C14 (as stated): sendToPubKeyNonDurably never touches the cache or the job
\* queues, never throws, returns the timestamp of the transport when the send
\* succeeded and null when it failed.
C14_NonDurableContract ==
    \A id \in Ids :
        msg[id] \in {"nd", "ndOk", "ndNull", "ndThrew"} =>
            /\ ~InCache(id) /\ ~Queued(id) /\ id \notin callbacks
            /\ msg[id] # "ndThrew"
            /\ msg[id] = "ndNull" => id \notin delivered
            /\ msg[id] = "ndOk" => id \in delivered \ failed

\* C15 (as stated): whenever an open-group send resolves with a serverId that
\* is absent, zero or negative, the failure handler is invoked for the message
\* and the public-message success handler is not.
C15_InvalidServerIdFails ==
    [][\A r \in og, serverId \in ServerIds :
          (r.ph = "sending" /\ (~serverId.present \/ serverId.v <= 0)
                            /\ ogSendResolved(r, serverId))
          => ("failure" \in ogLog'[r.id] /\ "success" \notin ogLog'[r.id])
      ]_vars

\* C16: the open-group sends leave the cache, the callback table and the job
\* queues as they are; a sendToOpenGroupV2 call for a reaction calls the
\* reaction endpoint and never the generic send nor the public-message success
\* handler.
C16_OpenGroupBypass ==
    /\ [][(og' # og \/ ogLog' # ogLog) => NoIO /\ UNCHANGED msg]_vars
    /\ [][(OgFree # {} /\ sendToOpenGroupV2(OgNext, TRUE))
            => "reaction" \in ogLog'[OgNext]]_vars
    /\ [](\A i \in OgIds :
            "reaction" \in ogLog[i] => (ogLog[i] \cap {"send", "success"} = {}))

\* A reaction call has returned while a message was cached with its job queued.
C16_Witness ==
    \E i \in OgIds :
        /\ "reaction" \in ogLog[i]
        /\ \A r \in og : r.id # i
        /\ cache # << >> /\ jobQueues["A"] # << >>

\* The results of the last pendingChangesForPubkey call that are about `variant`.
ResultsFor(variant) ==
    { i \in 1..Len(lsuLog.results) : lsuLog.results[i].variant = variant }

\* C17 (as stated, for calls with our own pubkey): the result of
\* pendingChangesForPubkey holds exactly one OutgoingConfResult for every user
\* variant that needs a push, with the seqno and the hashes of its push, and
\* none for a user variant that does not, whatever the dump table holds.
C17_OneResultPerDirtyVariant ==
    (lsuLog.op = "pendingChangesForPubkey" /\ lsuLog.pubkey = Us) =>
        \A variant \in Range(requiredUserVariants) :
            IF needsPush(wrappers[variant])
            THEN /\ Cardinality(ResultsFor(variant)) = 1
                 /\ \A i \in ResultsFor(variant) :
                       /\ lsuLog.results[i].seqno = push(wrappers[variant]).seqno
                       /\ lsuLog.results[i].oldMessageHashes = push(wrappers[variant]).hashes
            ELSE ResultsFor(variant) = {}

\* C18: markAsPushed with a pubkey that is not our own throws and does not
\* call confirmPushed: no wrapper changes.
C18_MarkAsPushedForeign ==
    [][\A variant \in Range(requiredUserVariants), pubkey \in Pubkeys,
          seqno \in 0..MaxEdits, hash \in Hashes :
          (pubkey # Us /\ markAsPushed(variant, pubkey, seqno, hash))
          => /\ lsuLog'.outcome = "threw"
             /\ lsuLog'.confirmed = << >>
             /\ wrappers' = wrappers
             /\ marking' = marking
      ]_vars

\* markAsPushed has thrown for a pubkey that is not ours, given the seqno of
\* a wrapper that waits for a confirmation.
C18_Witness ==
    /\ lsuLog.op = "markAsPushed" /\ lsuLog.outcome = "threw" /\ lsuLog.pubkey # Us
    /\ wrappers[lsuLog.variant].dirty
    /\ wrappers[lsuLog.variant].seqno = lsuLog.seqno

\* C19: markAsPushed with our own pubkey calls confirmPushed once, with the
\* variant, seqno and hash it was given, and when that call has completed
\* returns what needsDump says for the variant at that time.
C19_MarkAsPushedOwn ==
    [][/\ \A variant \in Range(requiredUserVariants), seqno \in 0..MaxEdits, hash \in Hashes :
             markAsPushed(variant, Us, seqno, hash)
             => /\ lsuLog'.confirmed = << [variant |-> variant, seqno |-> seqno,
                                          hash |-> hash] >>
                /\ lsuLog'.outcome = "suspended"
                /\ wrappers' = [wrappers EXCEPT ![variant] = confirmPushed(@, seqno, hash)]
       /\ \A m \in marking :
             markAsPushedReturn(m)
             => /\ lsuLog'.outcome = "returned"
                /\ lsuLog'.variant = m.variant
                /\ lsuLog'.ret = needsDump(wrappers[m.variant])
                /\ lsuLog'.confirmed = << >>
                /\ wrappers' = wrappers
      ]_vars

\* markAsPushed has returned true after a confirmation that made the wrapper
\* clean, while another wrapper needs no dump.
C19_Witness ==
    /\ lsuLog.op = "markAsPushed" /\ lsuLog.outcome = "returned"
    /\ lsuLog.ret = TRUE
    /\ ~wrappers[lsuLog.variant].dirty
    /\ wrappers[lsuLog.variant].hashes = {lsuLog.hash}
    /\ \E v \in Range(requiredUserVariants) : ~needsDump(wrappers[v])

\* The rows saved by the running initializeLibSessionUtilWrappers call.
SavedRows(variant) ==
    { i \in (Len(initRun.dumps) + 1)..Len(dumpTable) : dumpTable[i].variant = variant }

\* The dumps of `variant` that were persisted at startup.
StartDumps(variant) ==
    { i \in 1..Len(initRun.dumps) : initRun.dumps[i].variant = variant }

C21_NoKeyIsFatal ==
    /\ [](~keyPresent => \A v \in Variants : wrappers[v] = NoWrapper)
    /\ [][~keyPresent =>
            /\ initRun'.pc = "threw"
            /\ initRun'.dumps = << >>
            /\ UNCHANGED << dumpTable, wrappers >>]_vars

\* The call has thrown without the key while dumps were persisted.
C21_Witness ==
    /\ ~keyPresent
    /\ initRun.pc = "threw"
    /\ Len(dumpTable) >= 3

\* C22: with the key present, a failing init of a user wrapper from its dump
\* does not make initializeLibSessionUtilWrappers throw: the loop goes on to
\* the next dump.
C22_UserInitFailureIsolated ==
    [][initRun.pc = "userLoop" /\ initRun.index <= Len(initRun.dumps) =>
          /\ initRun'.pc = "userLoop"
          /\ initRun'.index = initRun.index + 1]_vars

\* C23: a failing group init is skipped: the loop over the dumps goes on one
\* dump at a time to the end, the call does not throw and the user wrappers
\* are left as they are.
C23_GroupInitFailureSkipped ==
    [][initRun.pc = "groupLoop" =>
          /\ initRun'.pc = IF initRun.index > Len(initRun.dumps) THEN "done" ELSE "groupLoop"
          /\ initRun'.index = IF initRun.index > Len(initRun.dumps)
                              THEN initRun.index ELSE initRun.index + 1
          /\ initRun'.dumps = initRun.dumps
          /\ \A v \in Range(requiredUserVariants) : wrappers'[v] = wrappers[v]
          /\ \A v \in GroupVariants :
                wrappers'[v] # wrappers[v] =>
                   /\ initRun.dumps[initRun.index].variant = v
                   /\ wrappers'[v] = wrapperInit(TRUE)]_vars

\* The call has completed although the init of the first group failed; the
\* second group and the four user wrappers are initialized.
C23_Witness ==
    /\ initRun.pc = "done"
    /\ \E i, j \in 1..Len(initRun.dumps) :
          /\ i < j
          /\ initRun.dumps[i].variant = GroupVariant
          /\ initRun.dumps[j].variant = GroupVariant2
    /\ wrappers[GroupVariant] = NoWrapper
    /\ wrappers[GroupVariant2] # NoWrapper
    /\ \A v \in Range(requiredUserVariants) : wrappers[v] # NoWrapper

\* C24: variantToKind and kindToVariant are inverse of each other between the
\* four required user variants and the four kinds, and any other value ends
\* in assertUnreachable.
C24_KindVariantBijection ==
    /\ \A i \in 1..Len(lsuLog) :
          LET c == lsuLog[i]
          IN  /\ c.op = "variantToKind" =>
                    IF c.input \in Range(requiredUserVariants)
                    THEN c.output \in Kinds
                    ELSE c.output = "assertUnreachable"
              /\ c.op = "kindToVariant" =>
                    IF c.input \in Kinds
                    THEN c.output \in Range(requiredUserVariants)
                    ELSE c.output = "assertUnreachable"
    /\ \A i \in 1..(Len(lsuLog) - 1) :
          LET c == lsuLog[i]
              back == lsuLog[i + 1]
          IN  /\ c.op # back.op
              /\ back.input = c.output
              /\ c.output # "assertUnreachable"
              => back.output = c.input
    /\ \A i, j \in 1..Len(lsuLog) :
          /\ lsuLog[i].op = lsuLog[j].op
          /\ lsuLog[i].output = lsuLog[j].output
          /\ lsuLog[i].output # "assertUnreachable"
          => lsuLog[i].input = lsuLog[j].input

\* A variant has been converted to its kind and the kind back to the variant.
C24_Witness ==
    /\ Len(lsuLog) = 2
    /\ lsuLog[1] = Conversion("variantToKind", "UserGroupsConfig", "USER_GROUPS")
    /\ lsuLog[2] = Conversion("kindToVariant", "USER_GROUPS", "UserGroupsConfig")

\* C25: a user variant that needs a push keeps needing it until markAsPushed
\* confirms its current seqno for our own pubkey; every
\* pendingChangesForPubkey call for our own pubkey made meanwhile emits it
\* and leaves it as it is.
C25_DirtyUntilConfirmed ==
    [][\A variant \in Range(requiredUserVariants) :
          needsPush(wrappers[variant]) =>
             /\ ~needsPush(wrappers'[variant]) =>
                   /\ lsuLog'.op = "markAsPushed"
                   /\ lsuLog'.outcome = "suspended"
                   /\ lsuLog'.pubkey = Us
                   /\ lsuLog'.variant = variant
                   /\ lsuLog'.seqno = wrappers[variant].seqno
             /\ lsuLog'.op = "pendingChangesForPubkey" =>
                   /\ wrappers'[variant] = wrappers[variant]
                   /\ lsuLog'.pubkey = Us =>
                         \E i \in 1..Len(lsuLog'.results) :
                            /\ lsuLog'.results[i].variant = variant
                            /\ lsuLog'.results[i].seqno = wrappers[variant].seqno]_vars

\* A variant was pushed and confirmed, then changed again: the call for our
\* own pubkey emits it with its new seqno.
C25_Witness ==
    /\ lsuLog.op = "pendingChangesForPubkey"
    /\ lsuLog.pubkey = Us
    /\ \E variant \in Range(requiredUserVariants) :
          /\ needsPush(wrappers[variant])
          /\ wrappers[variant].hashes # {}
          /\ wrappers[variant].seqno = 2
          /\ ResultsFor(variant) # {}

\* C26: pendingChangesForPubkey for our own pubkey looks at every required
\* user variant, whether it has a dump or not, so that each one that needs a
\* push is in the results; it writes nothing to the dump table; no result is
\* ever about a group variant.
C26_RequiredVariantsChecked ==
    /\ [](lsuLog.op = "pendingChangesForPubkey" =>
            /\ \A i \in 1..Len(lsuLog.results) :
                  lsuLog.results[i].variant \in Range(requiredUserVariants)
            /\ lsuLog.pubkey = Us =>
                  \A variant \in Range(requiredUserVariants) :
                     needsPush(wrappers[variant]) <=> ResultsFor(variant) # {})
    /\ [][lsuLog'.op = "pendingChangesForPubkey" => dumpTable' = dumpTable]_vars

\* First run for UserConfig: no dump of it at all, the wrapper needs a push
\* and the call emits it; the group has a dump and changes of its own.
C26_Witness ==
    /\ lsuLog.op = "pendingChangesForPubkey"
    /\ lsuLog.pubkey = Us
    /\ \A i \in 1..Len(dumpTable) : dumpTable[i].variant # "UserConfig"
    /\ \E i \in 1..Len(dumpTable) : dumpTable[i].variant = GroupVariant
    /\ needsPush(wrappers[GroupVariant])
    /\ needsPush(wrappers["UserConfig"])
    /\ ResultsFor("UserConfig") # {}

\* C27: under fair scheduling, every message that process has added to the
\* cache has, from some point on, had a transport send settled and left the
\* cache.
C27_AdmittedEventuallySettled ==
    \A id \in Ids :
        (msg[id] = "admitted") ~> (id \in Settled /\ ~InCache(id))

\* A message was added to the cache of a destination while the processPending
\* started for an earlier message of that destination was still suspended.
C27_Witness ==
    \E d \in Dests :
        /\ Len(getForDevice(cache, d)) = 2
        /\ \E dr \in drains : dr.dest = d
        /\ jobQueues[d] = << >>
        /\ \A e \in Range(cache) : msg[e.id] = "admitted" /\ e.id \notin Settled

\* C28 (as stated): when a job settles, the callback registered for its
\* message, if there is one, has been called in that job and the identifier
\* is no longer in the callback table, whether the send succeeded or failed.
C28_CallbackInvokedAndCleared ==
    [][\A d \in Dests :
          (/\ restarts' = restarts
           /\ phase[d] # "idle"
           /\ phase'[d] = "idle"
           /\ HeadId(d) \in callbacks)
          => /\ phase[d] = "callback"
             /\ HeadId(d) \notin callbacks'
      ]_vars

\* C29: processAllPending starts a processPending for every destination that
\* has messages in the cache; and the messages cached for another destination
\* are sent and leave the cache even when the transport never settles a send
\* to the slow destination.
C29_DestinationsIndependent ==
    /\ [][(restarts' = restarts /\ paps' < paps) =>
             \A device \in getDevices(cache) : processPendingCall(device, FALSE) \in drains'
         ]_vars
    /\ \A id \in Ids :
          (msg[id] = "admitted" /\ \E e \in Range(cache) : e.id = id /\ e.device # SlowDest)
             ~> (id \in Settled /\ ~InCache(id))

\* The send of the first message, to the slow destination, is still in flight
\* while the second message, for another destination, has been sent and has
\* left the cache.
C29_Witness ==
    /\ restarts = 0
    /\ JobSending(SlowDest)
    /\ HeadId(SlowDest) = 1
    /\ msg[2] = "admitted"
    /\ 2 \in Settled
    /\ ~InCache(2)

C31_InvalidResponsePropagates ==
    \A i \in OgIds :
        ("invalidServerId" \in ogLog[i] /\ \A r \in og : r.id # i)
            => "threw" \in ogLog[i]

\* C32 (as stated): the failure handler is called for a message only in the
\* step in which a transport send of that message is rejected, never because
\* the success handler or the callback of the message rejected.
C32_FailureOnlyOnSendFailure ==
    [][ev'.failure # 0 =>
          /\ \E s \in inflight \ inflight' : s.id = ev'.failure
          /\ ev'.failure \notin delivered
      ]_vars

\* C33 (as stated): a job hands its message to the transport with the
\* isSyncMessage flag exactly when the message was admitted as a sync message,
\* that is when it is cached under our own key, whichever processPending call
\* made the job.
C33_SyncFlagFollowsMessage ==
    \A s \in inflight : s.via = "job" => (s.sync <=> s.dest = Us)

\* C34 (as stated): as long as the process has not restarted, a job never
\* hands to the transport a message for which a transport send has already
\* settled: a message is sent at most once.
C34_SentAtMostOnce ==
    [][restarts' = 0 =>
          \A s \in inflight' \ inflight : s.via = "job" => s.id \notin Settled
      ]_vars

\* C35 (as stated): pendingChangesForPubkey called with a pubkey that is not
\* our own returns no result: the user variants are those of our own account.
C35_ForeignPubkeyNoResults ==
    (lsuLog.op = "pendingChangesForPubkey" /\ lsuLog.pubkey # Us) => lsuLog.results = << >>

====
